---- MODULE Spec2Model ----
(***************************************************************************)
(* Terminal Ludo (src/expense-tracker.py, "ludo game project.py" part):    *)
(* the rules engine Game -- tokens, legality, move application, capture,   *)
(* the CPU heuristic and the turn loop of Game.play -- as a state machine. *)
(* One step of the machine is one iteration of the while loop of play, or  *)
(* the code that follows the loop.                                         *)
(***************************************************************************)
EXTENDS Integers, Sequences, FiniteSets, TLC

\* ------------------------------------------------------------ constants
OUTER_TRACK == 52
HOME_STRETCH == 6
TOKENS_PER_PLAYER == 4
SAFE_SQUARES == {0, 8, 13, 21, 26, 34, 39, 47}
START_SQUARE == [p \in 0..3 |-> <<0, 13, 26, 39>>[p + 1]]
HOME_ENTRY == [p \in 0..3 |-> (START_SQUARE[p] - 1) % OUTER_TRACK]

\* Token.position of a token in the yard
YARD == -1
\* Python None: select_token_for_move's "no token", position_is_safe's default player_idx
None == -1
\* Game.__init__: assert 2 <= num_players <= 4
MinPlayers == 2
MaxPlayers == 4
\* random.randint(1, 6)
DiceMin == 1
DiceMax == 6

\* Number of loop iterations of play explored from each initial state.
MaxTurns == 3

\* The value of turns in a run whose iterations are not counted: play itself
\* bounds the number of iterations only by its while condition.
Uncounted == -1

Tokens == 0..(TOKENS_PER_PLAYER - 1)
Rolls == DiceMin..DiceMax
FINAL == OUTER_TRACK + HOME_STRETCH - 1

\* ------------------------------------------------------------ state
VARIABLES
    num_players,   \* Game.num_players
    is_cpu,        \* Player.is_cpu, by player index
    position,      \* Token.position, by player index and token index
    finished,      \* Token.finished, by player index and token index
    turn,          \* Game.turn
    winner_order,  \* Game.winner_order, as the sequence of player indexes
    pc,            \* "play": at the head of the while loop; "over": play returned
    turns,         \* loop iterations taken so far
    last,          \* what the last step did: kind, player, roll, token
    prev           \* position, finished, turn, winner_order before the last step

vars == <<num_players, is_cpu, position, finished, turn, winner_order, pc, turns, last, prev>>

Players == 0..(num_players - 1)

\* ------------------------------------------------------------ Token, Player
is_in_yard(pos) == pos = YARD

is_on_board(pos, fin) == pos >= 0 /\ ~fin

all_finished(F, p) == Cardinality({t \in Tokens : F[p][t]}) = TOKENS_PER_PLAYER

InOrder(order, p) == \E i \in 1..Len(order) : order[i] = p

\* ------------------------------------------------------------ board geometry
\* position_is_safe without the fixed safe squares (only the own start square)
position_is_safe_own_start(pos, player_idx) ==
    IF pos < 0 \/ pos >= OUTER_TRACK THEN FALSE
    ELSE IF player_idx # None /\ pos = START_SQUARE[player_idx] THEN TRUE
    ELSE FALSE

position_is_safe(pos, player_idx) ==
    IF pos < 0 \/ pos >= OUTER_TRACK THEN FALSE
    ELSE IF pos \in SAFE_SQUARES THEN TRUE
    ELSE IF player_idx # None /\ pos = START_SQUARE[player_idx] THEN TRUE
    ELSE FALSE

\* local_distance_to_home_entry by plain subtraction, without the wrap
local_distance_linear(player_idx, pos) ==
    IF pos < 0 \/ pos >= OUTER_TRACK THEN 0
    ELSE HOME_ENTRY[player_idx] - pos

local_distance_to_home_entry(player_idx, pos) ==
    IF pos < 0 \/ pos >= OUTER_TRACK THEN 0
    ELSE IF pos <= HOME_ENTRY[player_idx] THEN HOME_ENTRY[player_idx] - pos
    ELSE OUTER_TRACK - (pos - HOME_ENTRY[player_idx])

\* can_move_token with the stretch test off by one (<= for <)
can_move_token_le(player_idx, pos, fin, roll) ==
    IF fin THEN FALSE
    ELSE IF is_in_yard(pos) THEN roll = 6
    ELSE IF 0 <= pos /\ pos < OUTER_TRACK THEN
        LET steps_to_entry == local_distance_to_home_entry(player_idx, pos)
            over == roll - steps_to_entry - 1
        IN  IF roll <= steps_to_entry THEN TRUE ELSE over < HOME_STRETCH
    ELSE IF pos >= OUTER_TRACK THEN (pos - OUTER_TRACK) + roll <= HOME_STRETCH
    ELSE FALSE

\* can_move_token letting any roll bring a token out of the yard
can_move_token_any_roll(player_idx, pos, fin, roll) ==
    IF fin THEN FALSE
    ELSE IF is_in_yard(pos) THEN TRUE
    ELSE IF 0 <= pos /\ pos < OUTER_TRACK THEN
        LET steps_to_entry == local_distance_to_home_entry(player_idx, pos)
            over == roll - steps_to_entry - 1
        IN  IF roll <= steps_to_entry THEN TRUE ELSE over < HOME_STRETCH
    ELSE IF pos >= OUTER_TRACK THEN (pos - OUTER_TRACK) + roll < HOME_STRETCH
    ELSE FALSE

\* can_move_token with the stretch test one step short of the final coordinate
can_move_token_short(player_idx, pos, fin, roll) ==
    IF fin THEN FALSE
    ELSE IF is_in_yard(pos) THEN roll = 6
    ELSE IF 0 <= pos /\ pos < OUTER_TRACK THEN
        LET steps_to_entry == local_distance_to_home_entry(player_idx, pos)
            over == roll - steps_to_entry - 1
        IN  IF roll <= steps_to_entry THEN TRUE ELSE over < HOME_STRETCH
    ELSE IF pos >= OUTER_TRACK THEN (pos - OUTER_TRACK) + roll < HOME_STRETCH - 1
    ELSE FALSE

can_move_token(player_idx, pos, fin, roll) ==
    IF fin THEN FALSE
    ELSE IF is_in_yard(pos) THEN roll = 6
    ELSE IF 0 <= pos /\ pos < OUTER_TRACK THEN
        LET steps_to_entry == local_distance_to_home_entry(player_idx, pos)
            over == roll - steps_to_entry - 1
        IN  IF roll <= steps_to_entry THEN TRUE ELSE over < HOME_STRETCH
    ELSE IF pos >= OUTER_TRACK THEN (pos - OUTER_TRACK) + roll < HOME_STRETCH
    ELSE FALSE

\* ------------------------------------------------------------ move application
\* the board P with token t of player p put at coordinate pos
Put(P, p, t, pos) == [P EXCEPT ![p][t] = pos]

\* handle_capture stopping after the first captured token
handle_capture_first(P, F, player_idx, pos) ==
    LET hit == {pt \in (DOMAIN P) \X Tokens :
                   /\ pt[1] # player_idx
                   /\ is_on_board(P[pt[1]][pt[2]], F[pt[1]][pt[2]])
                   /\ P[pt[1]][pt[2]] = pos}
        first == CHOOSE pt \in hit : \A o \in hit :
                   pt[1] < o[1] \/ (pt[1] = o[1] /\ pt[2] <= o[2])
    IN  IF pos < 0 \/ pos >= OUTER_TRACK THEN P
        ELSE IF position_is_safe(pos, player_idx) THEN P
        ELSE IF hit = {} THEN P
        ELSE [P EXCEPT ![first[1]][first[2]] = YARD]

\* handle_capture without the safe-square test
handle_capture_no_safe(P, F, player_idx, pos) ==
    IF pos < 0 \/ pos >= OUTER_TRACK THEN P
    ELSE [pl \in DOMAIN P |->
            IF pl = player_idx THEN P[pl]
            ELSE [tok \in Tokens |->
                    IF is_on_board(P[pl][tok], F[pl][tok]) /\ P[pl][tok] = pos
                    THEN YARD ELSE P[pl][tok]]]

handle_capture(P, F, player_idx, pos) ==
    IF pos < 0 \/ pos >= OUTER_TRACK THEN P
    ELSE IF position_is_safe(pos, player_idx) THEN P
    ELSE [pl \in DOMAIN P |->
            IF pl = player_idx THEN P[pl]
            ELSE [tok \in Tokens |->
                    IF is_on_board(P[pl][tok], F[pl][tok]) /\ P[pl][tok] = pos
                    THEN YARD ELSE P[pl][tok]]]

\* move_token setting the finished flag on every entry into the home stretch
move_token_entered(P, F, p, t, roll) ==
    LET pos == P[p][t]
        steps_to_entry == local_distance_to_home_entry(p, pos)
        new_pos == (pos + roll) % OUTER_TRACK
        over == roll - steps_to_entry - 1
        new_rel == (pos - OUTER_TRACK) + roll
    IN  IF is_in_yard(pos) THEN
            [position |-> handle_capture(Put(P, p, t, START_SQUARE[p]), F, p, START_SQUARE[p]),
             finished |-> F]
        ELSE IF 0 <= pos /\ pos < OUTER_TRACK THEN
            IF roll <= steps_to_entry THEN
                [position |-> handle_capture(Put(P, p, t, new_pos), F, p, new_pos),
                 finished |-> F]
            ELSE
                [position |-> Put(P, p, t, OUTER_TRACK + over),
                 finished |-> [F EXCEPT ![p][t] = TRUE]]
        ELSE IF pos >= OUTER_TRACK THEN
            IF new_rel = HOME_STRETCH - 1 THEN
                [position |-> Put(P, p, t, OUTER_TRACK + new_rel),
                 finished |-> [F EXCEPT ![p][t] = TRUE]]
            ELSE IF new_rel < HOME_STRETCH - 1 THEN
                [position |-> Put(P, p, t, OUTER_TRACK + new_rel), finished |-> F]
            ELSE [position |-> P, finished |-> F]
        ELSE [position |-> P, finished |-> F]

\* move_token with the finish test of the stretch branch off by one
move_token_late_finish(P, F, p, t, roll) ==
    LET pos == P[p][t]
        steps_to_entry == local_distance_to_home_entry(p, pos)
        new_pos == (pos + roll) % OUTER_TRACK
        over == roll - steps_to_entry - 1
        new_rel == (pos - OUTER_TRACK) + roll
    IN  IF is_in_yard(pos) THEN
            [position |-> handle_capture(Put(P, p, t, START_SQUARE[p]), F, p, START_SQUARE[p]),
             finished |-> F]
        ELSE IF 0 <= pos /\ pos < OUTER_TRACK THEN
            IF roll <= steps_to_entry THEN
                [position |-> handle_capture(Put(P, p, t, new_pos), F, p, new_pos),
                 finished |-> F]
            ELSE
                [position |-> Put(P, p, t, OUTER_TRACK + over),
                 finished |-> IF over = HOME_STRETCH - 1
                              THEN [F EXCEPT ![p][t] = TRUE] ELSE F]
        ELSE IF pos >= OUTER_TRACK THEN
            IF new_rel = HOME_STRETCH THEN
                [position |-> Put(P, p, t, OUTER_TRACK + new_rel),
                 finished |-> [F EXCEPT ![p][t] = TRUE]]
            ELSE IF new_rel < HOME_STRETCH - 1 THEN
                [position |-> Put(P, p, t, OUTER_TRACK + new_rel), finished |-> F]
            ELSE [position |-> P, finished |-> F]
        ELSE [position |-> P, finished |-> F]

\* move_token running the capture loop of handle_capture on every landing,
\* the home stretch included
move_token_stretch_capture(P, F, p, t, roll) ==
    LET pos == P[p][t]
        steps_to_entry == local_distance_to_home_entry(p, pos)
        new_pos == (pos + roll) % OUTER_TRACK
        over == roll - steps_to_entry - 1
        new_rel == (pos - OUTER_TRACK) + roll
        sweep(Q, at) ==
            [pl \in DOMAIN Q |->
                IF pl = p THEN Q[pl]
                ELSE [tok \in Tokens |->
                        IF is_on_board(Q[pl][tok], F[pl][tok]) /\ Q[pl][tok] = at
                        THEN YARD ELSE Q[pl][tok]]]
    IN  IF is_in_yard(pos) THEN
            [position |-> handle_capture(Put(P, p, t, START_SQUARE[p]), F, p, START_SQUARE[p]),
             finished |-> F]
        ELSE IF 0 <= pos /\ pos < OUTER_TRACK THEN
            IF roll <= steps_to_entry THEN
                [position |-> handle_capture(Put(P, p, t, new_pos), F, p, new_pos),
                 finished |-> F]
            ELSE
                [position |-> sweep(Put(P, p, t, OUTER_TRACK + over), OUTER_TRACK + over),
                 finished |-> IF over = HOME_STRETCH - 1
                              THEN [F EXCEPT ![p][t] = TRUE] ELSE F]
        ELSE IF pos >= OUTER_TRACK THEN
            IF new_rel = HOME_STRETCH - 1 THEN
                [position |-> sweep(Put(P, p, t, OUTER_TRACK + new_rel), OUTER_TRACK + new_rel),
                 finished |-> [F EXCEPT ![p][t] = TRUE]]
            ELSE IF new_rel < HOME_STRETCH - 1 THEN
                [position |-> sweep(Put(P, p, t, OUTER_TRACK + new_rel), OUTER_TRACK + new_rel),
                 finished |-> F]
            ELSE [position |-> P, finished |-> F]
        ELSE [position |-> P, finished |-> F]

\* move_token on board P with flags F: the board and the flags after the call
move_token(P, F, p, t, roll) ==
    LET pos == P[p][t]
        steps_to_entry == local_distance_to_home_entry(p, pos)
        new_pos == (pos + roll) % OUTER_TRACK
        over == roll - steps_to_entry - 1
        new_rel == (pos - OUTER_TRACK) + roll
    IN  IF is_in_yard(pos) THEN
            [position |-> handle_capture(Put(P, p, t, START_SQUARE[p]), F, p, START_SQUARE[p]),
             finished |-> F]
        ELSE IF 0 <= pos /\ pos < OUTER_TRACK THEN
            IF roll <= steps_to_entry THEN
                [position |-> handle_capture(Put(P, p, t, new_pos), F, p, new_pos),
                 finished |-> F]
            ELSE
                [position |-> Put(P, p, t, OUTER_TRACK + over),
                 finished |-> IF over = HOME_STRETCH - 1
                              THEN [F EXCEPT ![p][t] = TRUE] ELSE F]
        ELSE IF pos >= OUTER_TRACK THEN
            IF new_rel = HOME_STRETCH - 1 THEN
                [position |-> Put(P, p, t, OUTER_TRACK + new_rel),
                 finished |-> [F EXCEPT ![p][t] = TRUE]]
            ELSE IF new_rel < HOME_STRETCH - 1 THEN
                [position |-> Put(P, p, t, OUTER_TRACK + new_rel), finished |-> F]
            ELSE [position |-> P, finished |-> F]
        ELSE [position |-> P, finished |-> F]

\* ------------------------------------------------------------ choosing a token
movable(P, F, p, roll) == {t \in Tokens : can_move_token(p, P[p][t], F[p][t], roll)}

any_moves_available(P, F, p, roll) == \E tok \in Tokens : can_move_token(p, P[p][tok], F[p][tok], roll)

\* the first token of S in fleet order
FirstOf(S) == CHOOSE t \in S : \A u \in S : t <= u

\* 1) finishing
CpuFinishing(P, F, p, roll) ==
    {t \in movable(P, F, p, roll) :
        P[p][t] >= OUTER_TRACK /\ (P[p][t] - OUTER_TRACK) + roll = HOME_STRETCH - 1}

\* the destination the capture preview computes
CpuDest(P, p, t, roll) ==
    LET steps_to_entry == local_distance_to_home_entry(p, P[p][t])
    IN  IF is_in_yard(P[p][t]) THEN START_SQUARE[p]
        ELSE IF 0 <= P[p][t] /\ P[p][t] < OUTER_TRACK THEN
            IF roll <= steps_to_entry THEN (P[p][t] + roll) % OUTER_TRACK
            ELSE OUTER_TRACK + (roll - steps_to_entry - 1)
        ELSE P[p][t] + roll

\* 2) move that captures
CpuCapturing(P, F, p, roll) ==
    {t \in movable(P, F, p, roll) :
        /\ CpuDest(P, p, t, roll) < OUTER_TRACK
        /\ ~position_is_safe(CpuDest(P, p, t, roll), p)
        /\ \E pl \in DOMAIN P : pl # p /\ \E tok \in Tokens :
              is_on_board(P[pl][tok], F[pl][tok]) /\ P[pl][tok] = CpuDest(P, p, t, roll)}

\* bring out, looking at every token of the player instead of the movable ones
CpuBringOut_all(P, F, p, roll) == {t \in Tokens : is_in_yard(P[p][t])}

\* 3) bring out
CpuBringOut(P, F, p, roll) == {t \in movable(P, F, p, roll) : is_in_yard(P[p][t])}

\* CpuFurthest with ties going to the last token in fleet order
CpuFurthest_last(P, F, p, roll) ==
    CHOOSE t \in movable(P, F, p, roll) : \A u \in movable(P, F, p, roll) :
        P[p][u] < P[p][t] \/ (P[p][u] = P[p][t] /\ t >= u)

\* 4) the stable descending sort's first element: highest position, then fleet order
CpuFurthest(P, F, p, roll) ==
    CHOOSE t \in movable(P, F, p, roll) : \A u \in movable(P, F, p, roll) :
        P[p][u] < P[p][t] \/ (P[p][u] = P[p][t] /\ t <= u)

\* cpu_select trying 3) bring out before 2) move that captures
cpu_select_bring_out_first(P, F, p, roll) ==
    IF movable(P, F, p, roll) = {} THEN None
    ELSE IF CpuFinishing(P, F, p, roll) # {} THEN FirstOf(CpuFinishing(P, F, p, roll))
    ELSE IF CpuBringOut(P, F, p, roll) # {} THEN FirstOf(CpuBringOut(P, F, p, roll))
    ELSE IF CpuCapturing(P, F, p, roll) # {} THEN FirstOf(CpuCapturing(P, F, p, roll))
    ELSE CpuFurthest(P, F, p, roll)

\* select_token_for_move for a CPU player
cpu_select(P, F, p, roll) ==
    IF movable(P, F, p, roll) = {} THEN None
    ELSE IF CpuFinishing(P, F, p, roll) # {} THEN FirstOf(CpuFinishing(P, F, p, roll))
    ELSE IF CpuCapturing(P, F, p, roll) # {} THEN FirstOf(CpuCapturing(P, F, p, roll))
    ELSE IF CpuBringOut(P, F, p, roll) # {} THEN FirstOf(CpuBringOut(P, F, p, roll))
    ELSE CpuFurthest(P, F, p, roll)

\* what select_token_for_move can return: the heuristic's token for a CPU player,
\* any legal token or None ('p') for a prompted player
select_token_for_move(P, F, cpu, p, roll) ==
    IF movable(P, F, p, roll) = {} THEN {None}
    ELSE IF cpu THEN {cpu_select(P, F, p, roll)}
    ELSE movable(P, F, p, roll) \cup {None}

\* ------------------------------------------------------------ Game.play
\* next_turn with the modulus off by one
next_turn_short(t, n) == (t + 1) % (n - 1)

next_turn(t, n) == (t + 1) % n

\* extra_turn set on every turn that finds nothing to move
extra_turn_no_moves_always(roll) == roll \in Rolls

\* extra_turn after a turn in which no token could move
extra_turn_no_moves(roll) == roll = 6

\* extra_turn after a turn in which select_token_for_move returned tok
extra_turn_selected(tok, roll) == IF tok = None THEN FALSE ELSE roll = 6

\* rank_after_move leaving the ranking to the skip branch of the loop
rank_after_move_never(order, F, p) == order

\* winner_order after player p's move left the flags F
rank_after_move(order, F, p) ==
    IF all_finished(F, p) /\ ~InOrder(order, p) THEN Append(order, p) ELSE order

\* the while condition comparing with the roster size
loop_condition_roster == Len(winner_order) < num_players

\* the while condition of play
loop_condition == Len(winner_order) < num_players - 1

\* the players not yet ranked, in roster order
Remaining(order, n) ==
    SelectSeq([i \in 1..n |-> i - 1], LAMBDA p : ~InOrder(order, p))

Playing == pc = "play" /\ loop_condition /\ turns < MaxTurns

Step(kind, roll, tok) ==
    /\ last' = [kind |-> kind, player |-> turn, roll |-> roll, tok |-> tok]
    /\ prev' = [position |-> position, finished |-> finished, turn |-> turn,
                winner_order |-> winner_order]
    /\ turns' = IF turns = Uncounted THEN turns ELSE turns + 1
    /\ UNCHANGED <<num_players, is_cpu>>

\* lines 387-391: the cursor is on a player whose tokens are all finished
SkipFinished ==
    /\ Playing
    /\ all_finished(finished, turn)
    /\ winner_order' = IF InOrder(winner_order, turn) THEN winner_order
                       ELSE Append(winner_order, turn)
    /\ turn' = next_turn(turn, num_players)
    /\ Step("skip", 0, None)
    /\ UNCHANGED <<position, finished, pc>>

\* lines 396-406, 423-424: the roll leaves no token to move
TurnNoMoves(roll) ==
    /\ Playing
    /\ ~all_finished(finished, turn)
    /\ ~any_moves_available(position, finished, turn, roll)
    /\ turn' = IF extra_turn_no_moves(roll) THEN turn ELSE next_turn(turn, num_players)
    /\ Step("nomove", roll, None)
    /\ UNCHANGED <<position, finished, winner_order, pc>>

\* lines 408-410, 423-424: select_token_for_move returns None
TurnPass(roll) ==
    /\ Playing
    /\ ~all_finished(finished, turn)
    /\ any_moves_available(position, finished, turn, roll)
    /\ None \in select_token_for_move(position, finished, is_cpu[turn], turn, roll)
    /\ turn' = IF extra_turn_selected(None, roll) THEN turn ELSE next_turn(turn, num_players)
    /\ Step("pass", roll, None)
    /\ UNCHANGED <<position, finished, winner_order, pc>>

\* lines 408, 411-424: select_token_for_move returns tok and the move is applied
TurnMove(roll, tok) ==
    /\ Playing
    /\ ~all_finished(finished, turn)
    /\ any_moves_available(position, finished, turn, roll)
    /\ tok \in select_token_for_move(position, finished, is_cpu[turn], turn, roll)
    /\ tok # None
    /\ LET moved == move_token(position, finished, turn, tok, roll)
       IN  /\ position' = moved.position
           /\ finished' = moved.finished
           /\ winner_order' = rank_after_move(winner_order, moved.finished, turn)
    /\ turn' = IF extra_turn_selected(tok, roll) THEN turn ELSE next_turn(turn, num_players)
    /\ Step("move", roll, tok)
    /\ UNCHANGED pc

\* lines 426-433: the loop has ended, the remaining players are appended
GameOver ==
    /\ pc = "play"
    /\ ~loop_condition
    /\ winner_order' = winner_order \o Remaining(winner_order, num_players)
    /\ pc' = "over"
    /\ last' = [kind |-> "over", player |-> turn, roll |-> 0, tok |-> None]
    /\ prev' = [position |-> position, finished |-> finished, turn |-> turn,
                winner_order |-> winner_order]
    /\ UNCHANGED <<num_players, is_cpu, position, finished, turn, turns>>

Next ==
    \/ SkipFinished
    \/ \E roll \in Rolls : TurnNoMoves(roll)
    \/ \E roll \in Rolls : TurnPass(roll)
    \/ \E roll \in Rolls : \E tok \in Tokens : TurnMove(roll, tok)
    \/ GameOver

\* ------------------------------------------------------------ initial states
\* the game after Game.__init__ with a board B (player index -> fleet), the CPU
\* flags cpu, the cursor t and the ranking order
Start(B, cpu, t, order) ==
    /\ num_players = Cardinality(DOMAIN B)
    /\ is_cpu = cpu
    /\ position = B
    /\ finished = [p \in DOMAIN B |-> [k \in Tokens |-> B[p][k] = FINAL]]
    /\ turn = t
    /\ winner_order = order
    /\ pc = "play"
    /\ turns = 0
    /\ last = [kind |-> "init", player |-> t, roll |-> 0, tok |-> None]
    /\ prev = [position |-> B,
               finished |-> [p \in DOMAIN B |-> [k \in Tokens |-> B[p][k] = FINAL]],
               turn |-> t, winner_order |-> order]

\* Game.__init__: every token in the yard, turn 0, nobody ranked
Init ==
    \E n \in MinPlayers..MaxPlayers : \E cpu \in [0..(n - 1) -> BOOLEAN] :
        Start([p \in 0..(n - 1) |-> [k \in Tokens |-> YARD]], cpu, 0, <<>>)

Spec == Init /\ [][Next]_vars

\* ------------------------------------------------------------ positions of a game in progress
Fleet(a, b, c, d) == [k \in Tokens |-> <<a, b, c, d>>[k + 1]]

Board(fleets) == [p \in 0..(Len(fleets) - 1) |-> fleets[p + 1]]

\* Boards a game reaches whoever plays (every player prompted or player 0 a CPU).
\* A token leaves the yard on a 6, walks its track with rolls below 6 and is
\* finished by an exact roll; player 0 as CPU brings its tokens out in fleet order
\* and walks each one home before the next 6, so its fleets below are
\* finished tokens followed by one token under way, or tokens still in the yard.
BoardsAnyPlayer ==
    { Board(<<Fleet(57, 57, 57, 56), Fleet(57, 57, 55, 56)>>),
      Board(<<Fleet(57, 57, 57, 51), Fleet(20, -1, -1, -1)>>),
      Board(<<Fleet(51, -1, -1, -1), Fleet(-1, -1, -1, -1)>>),
      Board(<<Fleet(57, 57, 57, 56), Fleet(57, 57, 57, 57), Fleet(57, 57, 57, 55)>>),
      Board(<<Fleet(57, 57, 57, 56), Fleet(57, 57, 57, 56), Fleet(-1, -1, -1, -1)>>),
      Board(<<Fleet(57, 57, 57, 56), Fleet(57, 57, 57, 57), Fleet(57, 57, 57, 57),
              Fleet(57, 57, 57, 50)>>) }

\* A board with player 0 a CPU: player 1 has walked two tokens to 4 and 6;
\* player 0, its token 0 finished, then rolled 6 (token 1 out), 1, later 6
\* (token 2 out) and 1, and player 1 passed.
BoardsCpu ==
    { Board(<<Fleet(57, 2, 0, -1), Fleet(4, 6, 57, 57)>>) }

\* Boards reached with prompted players, who choose which token to move: two
\* tokens of one player stacked on an unsafe square (5; 7), a token within one
\* roll of them, a token on a safe square (8) and on another player's start
\* square (0) with an opposing token within reach, next to finished tokens.
BoardsPrompted ==
    { Board(<<Fleet(3, 7, -1, 57), Fleet(5, 5, 57, 57)>>),
      Board(<<Fleet(7, -1, 57, 57), Fleet(8, 0, 57, 57)>>),
      Board(<<Fleet(3, 57, 57, 57), Fleet(5, 56, 57, 57), Fleet(7, 7, 57, 57)>>) }

\* the ranking at the head of the loop: the players whose fleet is finished, in
\* any order of finishing
Rankings(B) ==
    LET done == {p \in DOMAIN B : \A k \in Tokens : B[p][k] = FINAL}
    IN  {o \in [1..Cardinality(done) -> done] : \A i, j \in 1..Cardinality(done) :
            i # j => o[i] # o[j]}

NoCpu(B) == [p \in DOMAIN B |-> FALSE]

Player0Cpu(B) == [p \in DOMAIN B |-> p = 0]

\* A four-player game in which player p has brought out one token and walked
\* it to coordinate c (any coordinate of its track or stretch below the final
\* one, or still the yard) while nobody else has rolled a 6; it is p's turn.
OneTokenOut(p, c) ==
    [q \in 0..(MaxPlayers - 1) |->
        [k \in Tokens |-> IF q = p /\ k = 0 THEN c ELSE YARD]]

\* the same for a game whose last turn (of those explored) is about to be taken
StartLastTurn(B, cpu, t) ==
    /\ num_players = Cardinality(DOMAIN B)
    /\ is_cpu = cpu
    /\ position = B
    /\ finished = [p \in DOMAIN B |-> [k \in Tokens |-> B[p][k] = FINAL]]
    /\ turn = t
    /\ winner_order = <<>>
    /\ pc = "play"
    /\ turns = MaxTurns - 1
    /\ last = [kind |-> "init", player |-> t, roll |-> 0, tok |-> None]
    /\ prev = [position |-> B,
               finished |-> [p \in DOMAIN B |-> [k \in Tokens |-> B[p][k] = FINAL]],
               turn |-> t, winner_order |-> <<>>]

MidGame ==
    \/ \E B \in BoardsAnyPlayer \cup BoardsPrompted : \E t \in DOMAIN B :
         \E o \in Rankings(B) : Start(B, NoCpu(B), t, o)
    \/ \E B \in BoardsAnyPlayer : \E t \in DOMAIN B :
         \E o \in Rankings(B) : Start(B, Player0Cpu(B), t, o)
    \/ \E p \in 0..(MaxPlayers - 1) : \E c \in YARD..(FINAL - 1) : \E cpu \in BOOLEAN :
         StartLastTurn(OneTokenOut(p, c), [q \in 0..(MaxPlayers - 1) |-> cpu /\ q = p], p)
    \/ \E B \in BoardsCpu : StartLastTurn(B, Player0Cpu(B), 0)

\* play from construction and from the positions above
SpecMid == (Init \/ MidGame) /\ [][Next]_vars

\* A late three-player game: player 2 has finished its fleet and is ranked,
\* players 0 and 1 have finished three tokens each; player 0 has just entered
\* its stretch and player 1 is 14 steps from its entry coordinate, so that
\* neither token can meet the other.
BoardsLate ==
    { Board(<<Fleet(52, 57, 57, 57), Fleet(50, 57, 57, 57), Fleet(57, 57, 57, 57)>>) }

\* a game on board B, ranking order, at the head of the loop, its iterations
\* not counted
StartUncounted(B, cpu, t, order) ==
    /\ num_players = Cardinality(DOMAIN B)
    /\ is_cpu = cpu
    /\ position = B
    /\ finished = [p \in DOMAIN B |-> [k \in Tokens |-> B[p][k] = FINAL]]
    /\ turn = t
    /\ winner_order = order
    /\ pc = "play"
    /\ turns = Uncounted
    /\ last = [kind |-> "init", player |-> t, roll |-> 0, tok |-> None]
    /\ prev = [position |-> B,
               finished |-> [p \in DOMAIN B |-> [k \in Tokens |-> B[p][k] = FINAL]],
               turn |-> t, winner_order |-> order]

LateGame ==
    \E B \in BoardsLate : \E cpu \in {NoCpu(B), Player0Cpu(B)} :
        \E order \in Rankings(B) : StartUncounted(B, cpu, 0, order)

\* play to its end from the late games; the loop of play never stalls: every
\* iteration runs to its end (a prompted player answers the prompt)
SpecFair == LateGame /\ [][Next]_vars /\ WF_vars(Next)

\* ------------------------------------------------------------ properties
Rolled == last.kind \in {"nomove", "pass", "move"}

Moved == last.kind = "move"

\* the coordinate the last move left its token on
Landing == position[last.player][last.tok]

\* the tokens of the other players that stood on the shared-track coordinate c
\* before the last step
OpposingAt(c) ==
    {pt \in Players \X Tokens :
        /\ pt[1] # last.player
        /\ prev.position[pt[1]][pt[2]] = c
        /\ ~prev.finished[pt[1]][pt[2]]}

\* C1: a turn whose roll is 6 leaves the cursor on the player who rolled,
\* whether a token moved, none could move, or the player passed.
C1_SixKeepsCursor == (Rolled /\ last.roll = 6) => turn = last.player

\* C2: a turn whose roll is not 6 moves the cursor to (cursor+1) mod roster
\* size; a player in the ranking never rolls; the cursor on a ranked player
\* moves on by one with no roll and no token changed.
C2_CursorAdvance ==
    /\ (Rolled /\ last.roll # 6) => turn = (last.player + 1) % num_players
    /\ Rolled => (last.roll \in 1..6 /\ ~InOrder(prev.winner_order, last.player))
    /\ last.kind = "skip" =>
          /\ InOrder(prev.winner_order, last.player)
          /\ last.roll = 0
          /\ position = prev.position /\ finished = prev.finished
          /\ winner_order = prev.winner_order
          /\ turn = (last.player + 1) % num_players

\* a ranked player was skipped and the cursor now stands on an unranked one
C2_Witness ==
    /\ last.kind = "skip"
    /\ pc = "play"
    /\ ~InOrder(winner_order, turn)
    /\ Len(winner_order) < num_players - 1

\* the tokens of the player who moved last that the roll would have finished
CouldFinish ==
    {t \in movable(prev.position, prev.finished, last.player, last.roll) :
        move_token(prev.position, prev.finished, last.player, t, last.roll)
            .position[last.player][t] = FINAL}

\* C3: whenever a CPU player's legal set holds a token that the roll would
\* finish, the token select_token_for_move returns is one the roll finishes.
C3_CpuPrefersFinishing ==
    (Moved /\ is_cpu[last.player] /\ CouldFinish # {}) => finished[last.player][last.tok]

UnsafeLanding ==
    /\ Moved
    /\ Landing \in 0..(OUTER_TRACK - 1)
    /\ Landing \notin SAFE_SQUARES
    /\ Landing # START_SQUARE[last.player]

\* C4: a move landing on a shared-track coordinate that is not safe for the
\* mover sends every opposing on-track token at that coordinate to the yard,
\* unfinished, and leaves the moved token where the move put it, unfinished.
C4_CaptureAll ==
    UnsafeLanding =>
        /\ \A pt \in OpposingAt(Landing) :
              position[pt[1]][pt[2]] = YARD /\ ~finished[pt[1]][pt[2]]
        /\ Landing = (prev.position[last.player][last.tok] + last.roll) % OUTER_TRACK
        /\ ~finished[last.player][last.tok]

\* one move captured two tokens
C4_Witness == UnsafeLanding /\ Cardinality(OpposingAt(Landing)) >= 2

SafeLanding ==
    /\ Moved
    /\ Landing \in SAFE_SQUARES \/ Landing = START_SQUARE[last.player]

\* C5: a move landing on one of the 8 safe coordinates or on the mover's own
\* start coordinate changes no opposing token.
C5_NoCaptureOnSafe ==
    SafeLanding =>
        \A pl \in Players : pl # last.player =>
            position[pl] = prev.position[pl] /\ finished[pl] = prev.finished[pl]

\* a move landed on a safe coordinate on which an opposing token stood
C5_Witness == SafeLanding /\ OpposingAt(Landing) # {}

\* steps from shared-track coordinate c to player p's entry coordinate, going round
StepsRound(p, c) == (HOME_ENTRY[p] - c) % OUTER_TRACK

\* C6: a token becomes finished only by a move that ends exactly on coordinate
\* 57; no coordinate exceeds 57; a stretch token whose roll would pass 57 is
\* not legal, and a move in the stretch advances by exactly the roll.
C6_FinishOnlyExact ==
    /\ \A p \in Players : \A t \in Tokens :
          /\ position[p][t] <= FINAL
          /\ (finished[p][t] /\ ~prev.finished[p][t]) =>
                /\ Moved /\ last.player = p /\ last.tok = t
                /\ position[p][t] = FINAL
                /\ IF prev.position[p][t] >= OUTER_TRACK
                   THEN prev.position[p][t] + last.roll = FINAL
                   ELSE /\ prev.position[p][t] \in 0..(OUTER_TRACK - 1)
                        /\ last.roll = StepsRound(p, prev.position[p][t]) + HOME_STRETCH
          /\ \A roll \in Rolls :
                (position[p][t] >= OUTER_TRACK /\ position[p][t] + roll > FINAL)
                => ~can_move_token(p, position[p][t], finished[p][t], roll)
    /\ (Moved /\ prev.position[last.player][last.tok] >= OUTER_TRACK)
          => Landing = prev.position[last.player][last.tok] + last.roll

\* a move finished a token while another token of the mover could not move
\* because the roll would have carried it past 57
C6_Witness ==
    /\ Moved
    /\ finished[last.player][last.tok]
    /\ \E t \in Tokens :
          /\ ~prev.finished[last.player][t]
          /\ prev.position[last.player][t] >= OUTER_TRACK
          /\ prev.position[last.player][t] + last.roll > FINAL

\* C7: finished implies coordinate 57, the yard implies not finished, and a
\* finished token stays finished on the same coordinate.
C7_TokenInvariant ==
    \A p \in Players : \A t \in Tokens :
        /\ finished[p][t] => position[p][t] = FINAL
        /\ position[p][t] = YARD => ~finished[p][t]
        /\ prev.finished[p][t] => (finished[p][t] /\ position[p][t] = prev.position[p][t])

\* a move finished a token of a player who already had a finished token
C7_Witness ==
    /\ Moved
    /\ finished[last.player][last.tok]
    /\ \E t \in Tokens : prev.finished[last.player][t]
    /\ \E p \in Players : p # last.player /\ \E t \in Tokens : prev.finished[p][t]

NoDuplicates(order) == \A i, j \in 1..Len(order) : i # j => order[i] # order[j]

IsPrefix(a, b) == Len(a) <= Len(b) /\ \A i \in 1..Len(a) : a[i] = b[i]

FleetFinished(F, p) == \A t \in Tokens : F[p][t]

\* C8: during play the ranking only grows at its end, by one player at a time,
\* holds no player twice and at most the roster; at the head of every turn it
\* holds exactly the players whose four tokens are finished, and a player is
\* appended by the move that finishes its fourth token.
C8_RankingDuringPlay ==
    pc = "play" =>
        /\ IsPrefix(prev.winner_order, winner_order)
        /\ NoDuplicates(winner_order)
        /\ Len(winner_order) <= num_players
        /\ \A p \in Players : InOrder(winner_order, p) <=> FleetFinished(finished, p)
        /\ Len(winner_order) # Len(prev.winner_order) =>
              /\ Len(winner_order) = Len(prev.winner_order) + 1
              /\ Moved
              /\ winner_order[Len(winner_order)] = last.player
              /\ ~FleetFinished(prev.finished, last.player)
              /\ finished[last.player][last.tok]

\* a second player was ranked by finishing its fourth token
C8_Witness ==
    /\ pc = "play"
    /\ Moved
    /\ Len(prev.winner_order) = 1
    /\ winner_order = Append(prev.winner_order, last.player)

\* C9: no iteration of the loop runs with roster size - 1 players ranked;
\* play ends with exactly that many ranked, the one unranked player has an
\* unfinished token and is appended last, and the final ranking is a
\* permutation of the roster.
C9_Termination ==
    /\ last.kind \in {"skip", "nomove", "pass", "move"} =>
          Len(prev.winner_order) < num_players - 1
    /\ pc = "over" =>
          /\ last.kind = "over"
          /\ Len(prev.winner_order) = num_players - 1
          /\ Len(winner_order) = num_players
          /\ IsPrefix(prev.winner_order, winner_order)
          /\ ~InOrder(prev.winner_order, winner_order[num_players])
          /\ ~FleetFinished(finished, winner_order[num_players])
          /\ {winner_order[i] : i \in 1..num_players} = Players
          /\ position = prev.position /\ finished = prev.finished

\* a game of three or more players ended on a move
C9_Witness == pc = "over" /\ num_players >= 3 /\ turns >= 1

\* C10: a token in the yard is legal exactly for a roll of 6, and a token that
\* left the yard did so in its owner's move with a roll of 6, onto the owner's
\* start coordinate.
C10_YardExit ==
    \A p \in Players : \A t \in Tokens :
        /\ position[p][t] = YARD =>
              \A roll \in Rolls :
                  can_move_token(p, position[p][t], finished[p][t], roll) <=> roll = 6
        /\ (prev.position[p][t] = YARD /\ position[p][t] # YARD) =>
              /\ Moved /\ last.player = p /\ last.tok = t /\ last.roll = 6
              /\ position[p][t] = START_SQUARE[p]

\* a token of a player other than player 0 left the yard
C10_Witness ==
    /\ Moved
    /\ last.player # 0
    /\ prev.position[last.player][last.tok] = YARD
    /\ position[last.player][last.tok] = START_SQUARE[last.player]

\* the distance to the entry coordinate, as the claim computes it
EntryDistance(p, c) ==
    IF c <= HOME_ENTRY[p] THEN HOME_ENTRY[p] - c ELSE OUTER_TRACK - (c - HOME_ENTRY[p])

\* rolls beyond the die, up to one that overshoots from every distance below 7
AnyRoll == 1..(2 * DiceMax + 1)

\* C11: for an unfinished token on shared-track coordinate c with circular
\* distance d to its owner's entry: d is in 0..51; a roll <= d is legal and
\* moves it to (c + roll) mod 52; a roll of d + 1 moves it to coordinate 52; a
\* roll > d + HOME_STRETCH is illegal; and a move made on the shared track
\* ends no further than the entry coordinate.
C11_TrackDistance ==
    /\ \A p \in Players : \A t \in Tokens :
          (position[p][t] \in 0..(OUTER_TRACK - 1) /\ ~finished[p][t]) =>
              LET c == position[p][t]
                  d == EntryDistance(p, c)
              IN  /\ d \in 0..(OUTER_TRACK - 1)
                  /\ \A roll \in AnyRoll :
                        LET legal == can_move_token(p, c, finished[p][t], roll)
                        IN  /\ roll <= d =>
                                  /\ legal
                                  /\ move_token(position, finished, p, t, roll).position[p][t]
                                        = (c + roll) % OUTER_TRACK
                            /\ roll = d + 1 =>
                                  /\ legal
                                  /\ move_token(position, finished, p, t, roll).position[p][t]
                                        = OUTER_TRACK
                            /\ roll > d + HOME_STRETCH => ~legal
    /\ (Moved /\ prev.position[last.player][last.tok] \in 0..(OUTER_TRACK - 1)) =>
          IF last.roll <= StepsRound(last.player, prev.position[last.player][last.tok])
          THEN /\ Landing = (prev.position[last.player][last.tok] + last.roll) % OUTER_TRACK
               /\ StepsRound(last.player, Landing)
                    = StepsRound(last.player, prev.position[last.player][last.tok]) - last.roll
          ELSE Landing = OUTER_TRACK + last.roll
                    - StepsRound(last.player, prev.position[last.player][last.tok]) - 1

\* a token whose coordinate is numerically past its entry coordinate moved
\* across coordinate 51 to 0 and stayed on the shared track
C11_Witness ==
    /\ Moved
    /\ prev.position[last.player][last.tok] \in 0..(OUTER_TRACK - 1)
    /\ prev.position[last.player][last.tok] > HOME_ENTRY[last.player]
    /\ Landing < prev.position[last.player][last.tok]
    /\ Landing \in 0..(OUTER_TRACK - 1)

\* the coordinate move_token would have put token t of the last player on
WouldLand(t) ==
    move_token(prev.position, prev.finished, last.player, t, last.roll)
        .position[last.player][t]

\* the legal tokens of the last player whose move would have captured
CouldCapture ==
    {t \in movable(prev.position, prev.finished, last.player, last.roll) :
        /\ WouldLand(t) \in 0..(OUTER_TRACK - 1)
        /\ WouldLand(t) \notin SAFE_SQUARES
        /\ WouldLand(t) # START_SQUARE[last.player]
        /\ OpposingAt(WouldLand(t)) # {}}

\* C12: a CPU player with no finishing move and at least one capturing move
\* moves the first capturing token in fleet order, and the move captures: the
\* opposing tokens on the landing coordinate are in the yard afterwards.
C12_CpuPrefersCapture ==
    (Moved /\ is_cpu[last.player] /\ CouldFinish = {} /\ CouldCapture # {}) =>
        /\ last.tok \in CouldCapture
        /\ \A t \in CouldCapture : last.tok <= t
        /\ Landing = WouldLand(last.tok)
        /\ OpposingAt(Landing) # {}
        /\ \A pt \in OpposingAt(Landing) : position[pt[1]][pt[2]] = YARD

\* a CPU player captured with a token while a yard token and a more advanced
\* token were legal too
C12_Witness ==
    /\ Moved /\ is_cpu[last.player]
    /\ CouldFinish = {} /\ last.tok \in CouldCapture
    /\ \E t \in movable(prev.position, prev.finished, last.player, last.roll) :
          prev.position[last.player][t] = YARD
    /\ \E t \in movable(prev.position, prev.finished, last.player, last.roll) :
          prev.position[last.player][t] > prev.position[last.player][last.tok]

\* the legal tokens of the last player, and those of them in the yard
WasMovable == movable(prev.position, prev.finished, last.player, last.roll)

WasMovableInYard == {t \in WasMovable : prev.position[last.player][t] = YARD}

\* C13: a CPU player with no finishing and no capturing move moves its first
\* legal yard token in fleet order if it has one, otherwise the legal token
\* with the highest coordinate, the lowest fleet index among equals.
C13_CpuBringOutThenFurthest ==
    (Moved /\ is_cpu[last.player] /\ CouldFinish = {} /\ CouldCapture = {}) =>
        IF WasMovableInYard # {}
        THEN /\ last.tok \in WasMovableInYard
             /\ \A t \in WasMovableInYard : last.tok <= t
        ELSE /\ last.tok \in WasMovable
             /\ \A t \in WasMovable :
                   \/ prev.position[last.player][t] < prev.position[last.player][last.tok]
                   \/ /\ prev.position[last.player][t] = prev.position[last.player][last.tok]
                      /\ last.tok <= t

\* after two rolls of 6 from construction brought out tokens 0 and 1, a CPU
\* player moved token 0 of the two tokens standing on its start coordinate
C13_Witness ==
    /\ Moved /\ is_cpu[last.player]
    /\ last.tok = 0
    /\ prev.position[last.player] =
          [k \in Tokens |-> IF k <= 1 THEN START_SQUARE[last.player] ELSE YARD]
    /\ 1 \in WasMovable
    /\ WasMovableInYard = {}

\* C14: for a CPU player and every roll with a non-empty legal set,
\* select_token_for_move returns one of the player's tokens that is legal for
\* the roll, never None; a CPU player never passes, and its turn changes the
\* game only by move_token applied to the returned token.
C14_CpuReturnsLegal ==
    /\ pc = "play" =>
          \A p \in Players : \A roll \in Rolls :
              (is_cpu[p] /\ any_moves_available(position, finished, p, roll)) =>
                  LET tok == cpu_select(position, finished, p, roll)
                  IN  /\ tok \in Tokens
                      /\ ~finished[p][tok]
                      /\ can_move_token(p, position[p][tok], finished[p][tok], roll)
    /\ last.kind = "pass" => ~is_cpu[last.player]
    /\ (Moved /\ is_cpu[last.player]) =>
          /\ last.tok \in WasMovable
          /\ position = move_token(prev.position, prev.finished, last.player,
                                   last.tok, last.roll).position
          /\ finished = move_token(prev.position, prev.finished, last.player,
                                   last.tok, last.roll).finished

\* a CPU player moved a token on a roll for which another of its unfinished
\* tokens was not legal
C14_Witness ==
    /\ Moved /\ is_cpu[last.player]
    /\ \E t \in Tokens : ~prev.finished[last.player][t] /\ t \notin WasMovable

\* the destination of a roll from coordinate c of player p by the three cases:
\* yard, shared track, private stretch
RuleDest(p, c, roll) ==
    IF c = YARD THEN START_SQUARE[p]
    ELSE IF c < OUTER_TRACK THEN
        IF roll <= StepsRound(p, c) THEN (c + roll) % OUTER_TRACK
        ELSE OUTER_TRACK + (roll - StepsRound(p, c) - 1)
    ELSE c + roll

\* C15: for every unfinished token and roll, if can_move_token holds then
\* move_token moves the token to the destination of the three-case rule, which
\* differs from where it stood and is at most 57, and sets finished exactly when
\* that destination is 57; every move made is such a move.
C15_LegalityAgreesWithMove ==
    /\ pc = "play" =>
          \A p \in Players : \A t \in Tokens : \A roll \in Rolls :
              (~finished[p][t] /\ can_move_token(p, position[p][t], finished[p][t], roll)) =>
                  LET after == move_token(position, finished, p, t, roll)
                      dest == RuleDest(p, position[p][t], roll)
                  IN  /\ after.position[p][t] = dest
                      /\ dest # position[p][t]
                      /\ dest <= FINAL
                      /\ after.finished[p][t] <=> dest = FINAL
    /\ Moved =>
          /\ Landing = RuleDest(last.player, prev.position[last.player][last.tok], last.roll)
          /\ Landing # prev.position[last.player][last.tok]
          /\ finished[last.player][last.tok] <=> Landing = FINAL

\* a token of a player other than player 0 moved from the shared track into
\* its private stretch without finishing
C15_Witness ==
    /\ Moved
    /\ last.player # 0
    /\ prev.position[last.player][last.tok] \in 0..(OUTER_TRACK - 1)
    /\ Landing >= OUTER_TRACK
    /\ ~finished[last.player][last.tok]

\* the tokens other than the one the last move chose
Others == {pt \in Players \X Tokens : pt # <<last.player, last.tok>>}

\* token pt is where it was, and as it was, before the last step
Kept(pt) ==
    /\ position[pt[1]][pt[2]] = prev.position[pt[1]][pt[2]]
    /\ finished[pt[1]][pt[2]] = prev.finished[pt[1]][pt[2]]

\* C16: a turn with an empty legal set or a pass changes no token; a move
\* changes only the chosen token and the opposing on-track tokens at its
\* landing coordinate: the mover's other tokens and every token in a yard, in a
\* private stretch (coordinate >= 52) or finished stay as they were, so no
\* token is captured once it is in its private stretch.
C16_TurnFrame ==
    /\ last.kind \in {"nomove", "pass"} =>
          position = prev.position /\ finished = prev.finished
    /\ Moved =>
          \A pt \in Others :
              \/ Kept(pt)
              \/ /\ pt[1] # last.player
                 /\ ~prev.finished[pt[1]][pt[2]]
                 /\ prev.position[pt[1]][pt[2]] \in 0..(OUTER_TRACK - 1)
                 /\ prev.position[pt[1]][pt[2]] = Landing
    /\ Moved =>
          \A pt \in Others :
              (\/ pt[1] = last.player
               \/ prev.position[pt[1]][pt[2]] = YARD
               \/ prev.position[pt[1]][pt[2]] >= OUTER_TRACK
               \/ prev.finished[pt[1]][pt[2]]) => Kept(pt)

\* a move ended on a home-stretch coordinate whose number an unfinished token
\* of another player, in its own stretch, also carries
C16_Witness ==
    /\ Moved
    /\ Landing >= OUTER_TRACK
    /\ OpposingAt(Landing) # {}

\* the last move took its token out of the yard
YardExit == Moved /\ prev.position[last.player][last.tok] = YARD

\* C17: a yard exit lands on the mover's start coordinate, which is safe for
\* the mover and is one of the fixed safe coordinates, and the tokens of the
\* other players, those on that coordinate included, stay where they were.
C17_YardExitNoCapture ==
    /\ \A p \in DOMAIN START_SQUARE :
          START_SQUARE[p] \in SAFE_SQUARES /\ position_is_safe(START_SQUARE[p], p)
    /\ YardExit =>
          /\ Landing = START_SQUARE[last.player]
          /\ position_is_safe(Landing, last.player)
          /\ \A pt \in OpposingAt(Landing) :
                position[pt[1]][pt[2]] = Landing /\ ~finished[pt[1]][pt[2]]
          /\ \A pt \in Others : Kept(pt)

\* a token left the yard for a start coordinate on which an opposing token stood
C17_Witness == YardExit /\ OpposingAt(Landing) # {}

\* the unfinished tokens of player p
Unfinished(p) == {t \in Tokens : ~finished[p][t]}

\* C18: every player with an unfinished token has a roll in 1..6 with a
\* non-empty legal set: a token on the shared track is legal for every roll, a
\* yard token for 6, an unfinished stretch token for 1; and the legal set is
\* empty on a 6 only when all the player's unfinished tokens are in the stretch.
C18_NeverStuck ==
    /\ \A p \in Players :
          /\ Unfinished(p) # {} =>
                \E roll \in Rolls : any_moves_available(position, finished, p, roll)
          /\ \A t \in Unfinished(p) :
                /\ position[p][t] \in 0..(OUTER_TRACK - 1) =>
                      \A roll \in Rolls : t \in movable(position, finished, p, roll)
                /\ position[p][t] = YARD => t \in movable(position, finished, p, DiceMax)
                /\ position[p][t] >= OUTER_TRACK => t \in movable(position, finished, p, DiceMin)
          /\ ~any_moves_available(position, finished, p, DiceMax) =>
                \A t \in Unfinished(p) : position[p][t] >= OUTER_TRACK
    /\ (last.kind = "nomove" /\ last.roll = DiceMax) =>
          \A t \in Tokens :
              prev.finished[last.player][t] \/ prev.position[last.player][t] >= OUTER_TRACK

\* a player with an unfinished token, all of them in the stretch, rolled a 6
\* that left nothing to move, and can still move on a 1
C18_Witness ==
    /\ last.kind = "nomove"
    /\ last.roll = DiceMax
    /\ Unfinished(last.player) # {}
    /\ any_moves_available(position, finished, last.player, DiceMin)

NonSixRolled == Rolled /\ last.roll # DiceMax

\* player p is unranked in a game whose loop is running
Waiting(p) ==
    /\ p \in Players
    /\ ~InOrder(winner_order, p)
    /\ pc = "play"
    /\ loop_condition

\* the last iteration was a turn of player p, who rolled
JustRolled(p) == Rolled /\ last.player = p

\* C19: in a run in which values other than 6 are rolled again and again,
\* every unranked player of a running game whose turn it is not rolls again.
C19_NoStarvation ==
    \A p \in 0..(MaxPlayers - 1) :
        ([]<>NonSixRolled) => [](Waiting(p) /\ ~JustRolled(p) => <>JustRolled(p))

\* after a roll other than 6 the cursor stands on another unranked player of a
\* running game, past a ranked one
C19_Witness ==
    /\ turns = Uncounted
    /\ last.kind = "skip"
    /\ Waiting(turn)
    /\ ~JustRolled(turn)

====
